---- MODULE Spec2Model ----
(***************************************************************************)
(* Model of the CommonJS -> ES module transform of                         *)
(* rollup-plugin-commonjs-alternate (src/unnamed/part_000).                *)
(*                                                                         *)
(* A unit's source text is a sequence of tokens; a node's start/end are    *)
(* token offsets.  A node is identified by its path from the Program root  *)
(* (the sequence of child indices), which stands for JavaScript object     *)
(* identity (node === target).                                             *)
(***************************************************************************)
EXTENDS Integers, Sequences, FiniteSets, TLC

(***************************************************************************)
(* Bounds                                                                  *)
(***************************************************************************)
\* statements per unit
MaxStmts == 2

(***************************************************************************)
(* Source units.  A unit is written down as a tree with a layout: kids are *)
(* the child nodes in the order estree-walker visits them (the node's own  *)
(* key order), keys names the property each kid hangs on, lay is the       *)
(* concrete layout of literal tokens and child slots.  Tokens gives the    *)
(* unit's text and Place the syntax tree the parser (acorn, this.parse)    *)
(* returns for that text: the same nodes with start and end offsets.       *)
(***************************************************************************)
L(t) == [k |-> 0, t |-> t]
K(i) == [k |-> i, t |-> ""]

Node(type, name, value, vkind, operator, computed, keys, kids, lay) ==
    [type |-> type, name |-> name, value |-> value, vkind |-> vkind,
     operator |-> operator, computed |-> computed,
     keys |-> keys, kids |-> kids, lay |-> lay]

\* JavaScript null / undefined where a node is expected
NoNode ==
    [type |-> "null", name |-> "", value |-> "", vkind |-> "", operator |-> "",
     computed |-> FALSE, keys |-> <<>>, kids |-> <<>>, start |-> 0, end |-> 0]

Id(n) == Node("Identifier", n, "", "", "", FALSE, <<>>, <<>>, <<L(n)>>)
Str(v) == Node("Literal", "", v, "string", "", FALSE, <<>>, <<>>, <<L("'" \o v \o "'")>>)
Num(v) == Node("Literal", "", v, "number", "", FALSE, <<>>, <<>>, <<L(v)>>)
Bool(v) == Node("Literal", "", v, "boolean", "", FALSE, <<>>, <<>>, <<L(v)>>)

Call0(callee) ==
    Node("CallExpression", "", "", "", "", FALSE, <<"callee">>, <<callee>>,
         <<K(1), L("("), L(")")>>)
Call1(callee, a) ==
    Node("CallExpression", "", "", "", "", FALSE, <<"callee", "arguments">>, <<callee, a>>,
         <<K(1), L("("), K(2), L(")")>>)
Call2(callee, a, b) ==
    Node("CallExpression", "", "", "", "", FALSE,
         <<"callee", "arguments", "arguments">>, <<callee, a, b>>,
         <<K(1), L("("), K(2), L(","), K(3), L(")")>>)

Dot(obj, prop) ==
    Node("MemberExpression", "", "", "", "", FALSE, <<"object", "property">>, <<obj, prop>>,
         <<K(1), L("."), K(2)>>)
Sub(obj, prop) ==
    Node("MemberExpression", "", "", "", "", TRUE, <<"object", "property">>, <<obj, prop>>,
         <<K(1), L("["), K(2), L("]")>>)

Assign(left, right) ==
    Node("AssignmentExpression", "", "", "", "=", FALSE, <<"left", "right">>, <<left, right>>,
         <<K(1), L("="), K(2)>>)
Binary(op, left, right) ==
    Node("BinaryExpression", "", "", "", op, FALSE, <<"left", "right">>, <<left, right>>,
         <<K(1), L(op), K(2)>>)
Logical(op, left, right) ==
    Node("LogicalExpression", "", "", "", op, FALSE, <<"left", "right">>, <<left, right>>,
         <<K(1), L(op), K(2)>>)
Unary(op, arg) ==
    Node("UnaryExpression", "", "", "", op, FALSE, <<"argument">>, <<arg>>,
         <<L(op), K(1)>>)

ObjectExpr ==
    Node("ObjectExpression", "", "", "", "", FALSE, <<>>, <<>>, <<L("{"), L("}")>>)
FuncExpr ==
    Node("FunctionExpression", "", "", "", "", FALSE, <<"body">>,
         <<Node("BlockStatement", "", "", "", "", FALSE, <<>>, <<>>, <<L("{"), L("}")>>)>>,
         <<L("function"), L("("), L(")"), K(1)>>)

ExprStmt(e) ==
    Node("ExpressionStatement", "", "", "", "", FALSE, <<"expression">>, <<e>>,
         <<K(1), L(";")>>)
Block1(st) ==
    Node("BlockStatement", "", "", "", "", FALSE, <<"body">>, <<st>>,
         <<L("{"), K(1), L("}")>>)
If(test, cons) ==
    Node("IfStatement", "", "", "", "", FALSE, <<"test", "consequent">>, <<test, cons>>,
         <<L("if"), L("("), K(1), L(")"), K(2)>>)
IfElse(test, cons, alt) ==
    Node("IfStatement", "", "", "", "", FALSE,
         <<"test", "consequent", "alternate">>, <<test, cons, alt>>,
         <<L("if"), L("("), K(1), L(")"), K(2), L("else"), K(3)>>)
Declarator(n, init) ==
    Node("VariableDeclarator", "", "", "", "", FALSE, <<"id", "init">>, <<Id(n), init>>,
         <<K(1), L("="), K(2)>>)
VarDecl(n, init) ==
    Node("VariableDeclaration", "", "", "", "", FALSE, <<"declarations">>,
         <<Declarator(n, init)>>, <<L("var"), K(1), L(";")>>)
FuncDecl(n, st) ==
    Node("FunctionDeclaration", "", "", "", "", FALSE, <<"id", "body">>,
         <<Id(n), Block1(st)>>, <<L("function"), K(1), L("("), L(")"), K(2)>>)
ClassDecl(n) ==
    Node("ClassDeclaration", "", "", "", "", FALSE, <<"id", "body">>,
         <<Id(n), Node("ClassBody", "", "", "", "", FALSE, <<>>, <<>>, <<L("{"), L("}")>>)>>,
         <<L("class"), K(1), K(2)>>)
ExportDefault(e) ==
    Node("ExportDefaultDeclaration", "", "", "", "", FALSE, <<"declaration">>, <<e>>,
         <<L("export"), L("default"), K(1), L(";")>>)
Program(stmts) ==
    Node("Program", "", "", "", "", FALSE,
         [i \in 1..Len(stmts) |-> "body"], stmts, [i \in 1..Len(stmts) |-> K(i)])

(***************************************************************************)
(* Node accessors                                                          *)
(***************************************************************************)
\* indices of the kids hanging on property key
KidsOn(node, key) == {i \in 1..Len(node.kids) : node.keys[i] = key}

\* path of node[key] below the node at path p; <<0>> when the property is
\* null or undefined (no real path has a 0 step)
NoPath == <<0>>
Prop(node, p, key) ==
    IF KidsOn(node, key) = {} THEN NoPath
    ELSE Append(p, CHOOSE i \in KidsOn(node, key) : \A j \in KidsOn(node, key) : i <= j)

RECURSIVE At(_, _)
\* the node at path p; NoNode (undefined) where the tree has no such node
At(root, p) ==
    IF p = <<>> THEN root
    ELSE IF Head(p) \notin 1..Len(root.kids) THEN NoNode
    ELSE At(root.kids[Head(p)], Tail(p))

RECURSIVE Tokens(_)
RECURSIVE LayTokens(_, _)
LayTokens(node, i) ==
    IF i > Len(node.lay) THEN <<>>
    ELSE (IF node.lay[i].k = 0 THEN <<node.lay[i].t>> ELSE Tokens(node.kids[node.lay[i].k]))
         \o LayTokens(node, i + 1)
\* the source text of a node
Tokens(node) == LayTokens(node, 1)

RECURSIVE Width(_)
RECURSIVE LayWidth(_, _)
LayWidth(node, i) ==
    IF i > Len(node.lay) THEN 0
    ELSE (IF node.lay[i].k = 0 THEN 1 ELSE Width(node.kids[node.lay[i].k]))
         + LayWidth(node, i + 1)
\* the length of the source text of a node
Width(node) == LayWidth(node, 1)

RECURSIVE KidOffset(_, _, _)
\* offset of kid k from the start of node
KidOffset(node, k, i) ==
    IF node.lay[i].k = k THEN 0
    ELSE (IF node.lay[i].k = 0 THEN 1 ELSE Width(node.kids[node.lay[i].k]))
         + KidOffset(node, k, i + 1)

RECURSIVE Place(_, _)
\* the parsed node for the text of node starting at offset off
Place(node, off) ==
    [type |-> node.type, name |-> node.name, value |-> node.value, vkind |-> node.vkind,
     operator |-> node.operator, computed |-> node.computed, keys |-> node.keys,
     kids |-> [k \in 1..Len(node.kids) |->
                  Place(node.kids[k], off + KidOffset(node, k, 1))],
     start |-> off, end |-> off + Width(node)]

\* this.parse(code) for the code of a unit
parse(unit) == Place(unit, 0)

\* node.start and node.end of the node at path p
StartOf(root, p) == At(root, p).start
EndOf(root, p) == At(root, p).end

Parent(p) == SubSeq(p, 1, Len(p) - 1)
IsPrefix(a, b) == Len(a) <= Len(b) /\ SubSeq(b, 1, Len(a)) = a


(***************************************************************************)
(* The units the transform is run on: every selection of at most MaxStmts  *)
(* statements of Library.                                                  *)
(***************************************************************************)
Req(spec) == Call1(Id("require"), Str(spec))
ReqBlock(spec) == Block1(ExprStmt(Req(spec)))
ModuleExports == Dot(Id("module"), Id("exports"))
NodeEnv == Dot(Dot(Id("process"), Id("env")), Id("NODE_ENV"))
\* is e the expression process.env.NODE_ENV
IsNodeEnv(e) ==
    /\ e.type = "MemberExpression" /\ ~e.computed
    /\ e.kids[2].name = "NODE_ENV"
    /\ e.kids[1].type = "MemberExpression" /\ ~e.kids[1].computed
    /\ e.kids[1].kids[1].name = "process"
    /\ e.kids[1].kids[2].name = "env"
OneIsTwo == Binary("==", Num("1"), Num("2"))
OneIsOne == Binary("==", Num("1"), Num("1"))

Library ==
    << VarDecl("dep", Req("./a")),                                        \*  1
       FuncDecl("f", ExprStmt(Req("./b"))),                               \*  2
       If(OneIsTwo, ReqBlock("./a")),                                     \*  3
       If(OneIsOne, ReqBlock("./a")),                                     \*  4
       IfElse(OneIsTwo, ReqBlock("./a"), ReqBlock("./b")),                \*  5
       IfElse(OneIsOne, ReqBlock("./a"), ReqBlock("./b")),                \*  6
       IfElse(Binary("===", NodeEnv, Str("development")),
              ReqBlock("./a"), ReqBlock("./b")),                          \*  7
       If(Logical("||", Id("a"), Id("b")), ReqBlock("./a")),              \*  8
       If(Unary("!", Id("a")), ReqBlock("./a")),                          \*  9
       If(Call0(Id("f")), ReqBlock("./a")),                               \* 10
       If(Id("a"), ReqBlock("./a")),                                      \* 11
       If(OneIsTwo, Block1(If(Call0(Id("f")), ReqBlock("./a")))),         \* 12
       If(OneIsOne, Block1(If(OneIsTwo, ReqBlock("./a")))),               \* 13
       If(Call0(Id("f")), Block1(If(OneIsTwo, ReqBlock("./a")))),         \* 14
       ExprStmt(Call1(Id("require"), Id("somevar"))),                     \* 15
       ExprStmt(Call2(Id("require"), Str("./a"), Str("./b"))),            \* 16
       ExprStmt(Call0(Id("require"))),                                    \* 17
       ExprStmt(Assign(ModuleExports, Num("123"))),                       \* 18
       ExprStmt(Assign(Sub(Id("module"), Str("exports")), Num("123"))),   \* 19
       ExprStmt(Assign(Dot(Id("exports"), Id("foo")), Num("1"))),         \* 20
       ExprStmt(Assign(Sub(Id("exports"), Id("key")), Num("1"))),         \* 21
       ExprStmt(Call1(Id("f"), Id("exports"))),                           \* 22
       ExprStmt(Unary("typeof", Id("exports"))),                          \* 23
       ExprStmt(Call1(Id("g"), Dot(Id("exports"), Id("x")))),             \* 24
       ExprStmt(Dot(Id("a"), Id("exports"))),                             \* 25
       ExprStmt(ModuleExports),                                           \* 26
       ExprStmt(Assign(ModuleExports, Req("./a"))),                       \* 27
       ExprStmt(Call2(Dot(Id("Object"), Id("defineProperty")),
                      Id("exports"), Str("__esModule"))),                 \* 28
       ExportDefault(Num("1")),                                           \* 29
       VarDecl("foo", Num("1")),                                          \* 30
       ExprStmt(Assign(Dot(Id("exports"), Id("default")), Num("1"))),     \* 31
       If(Binary("===", Id("foo"), Num("1")), ReqBlock("./a")),           \* 32
       ExprStmt(Assign(ModuleExports, ObjectExpr)),                       \* 33
       ExprStmt(Assign(ModuleExports, Bool("false"))),                    \* 34
       ExprStmt(Assign(ModuleExports, Str("hello"))),                     \* 35
       ExprStmt(Assign(ModuleExports, FuncExpr)),                         \* 36
       ExprStmt(Sub(Id("a"), Id("exports"))),                             \* 37
       ExprStmt(Assign(Dot(Id("exports"), Id("__esModule")), Bool("true"))), \* 38
       ExprStmt(Assign(Dot(ModuleExports, Id("foo")), Num("1"))),         \* 39
       ClassDecl("bar"),                                                  \* 40
       ExprStmt(Assign(Dot(Id("exports"), Id("bar")),
                Assign(Dot(Id("exports"), Id("default")),
                Assign(Dot(Id("exports"), Id("foo")),
                Assign(Dot(Id("exports"), Id("bar")), Num("1")))))),      \* 41
       If(OneIsTwo, Block1(If(OneIsOne, ReqBlock("./a"))))                \* 42
    >>

RECURSIVE Selections(_, _)
\* the non-decreasing sequences over 1..m of length 1..n: one for each
\* selection of at most n statements, in library order
Selections(m, n) ==
    IF n = 0 THEN {}
    ELSE {<<x>> : x \in 1..m}
         \cup Selections(m, n - 1)
         \cup {Append(q, x) : q \in {r \in Selections(m, n - 1) : Len(r) = n - 1},
                              x \in 1..m}

Units ==
    {[i \in 1..Len(u) |-> Library[u[i]]] :
        u \in {q \in Selections(Len(Library), MaxStmts) :
                 \A i \in 1..(Len(q) - 1) : q[i] <= q[i + 1]}}

(***************************************************************************)
(* MagicString: the text patcher.  original is the unit's text, edits the  *)
(* overwritten ranges, intro / outro the prepended / appended content,     *)
(* locs the recorded source-map locations.                                 *)
(***************************************************************************)
NewMagicString(text) ==
    [original |-> text, edits |-> {}, intro |-> <<>>, outro |-> <<>>, locs |-> {}]

addSourcemapLocation(ms, pos) == [ms EXCEPT !.locs = @ \cup {pos}]

\* s.overwrite(start, end, content): content replaces the range, and
\* whatever was written inside the range before is gone
overwrite(ms, start, end, content) ==
    [ms EXCEPT !.edits = {e \in @ : ~(start <= e.start /\ e.end <= end)}
                         \cup {[start |-> start, end |-> end, content |-> content]}]

\* faulty variant: the content goes after what was prepended before
prepend_Behind(ms, content) == [ms EXCEPT !.intro = @ \o content]

\* s.prepend(content): this.intro = content + this.intro
prepend(ms, content) == [ms EXCEPT !.intro = content \o @]

\* faulty variant: the content goes ahead of what was appended before
append_Ahead(ms, content) == [ms EXCEPT !.outro = content \o @]

\* s.append(content): this.outro += content
append(ms, content) == [ms EXCEPT !.outro = @ \o content]

RECURSIVE Patched(_, _)
\* the original text from offset pos on, with the edits applied
Patched(ms, pos) ==
    IF pos >= Len(ms.original) THEN <<>>
    ELSE IF \E e \in ms.edits : e.start = pos
         THEN LET e == CHOOSE x \in ms.edits : x.start = pos
              IN  e.content \o Patched(ms, e.end)
         ELSE <<ms.original[pos + 1]>> \o Patched(ms, pos + 1)

\* s.toString()
toString(ms) == ms.intro \o Patched(ms, 0) \o ms.outro

(***************************************************************************)
(* Branch evaluation: the eval of the regenerated if statement             *)
(***************************************************************************)
\* faulty variant: both markers assign 0
Marker_Zero(v) == parse(Program(<<ExprStmt(Assign(Id("branch"), Num("0")))>>))

\* this.parse('branch = 0'), this.parse('branch = 1')
Marker(v) == parse(Program(<<ExprStmt(Assign(Id("branch"), Num(v)))>>))

\* parent.consequent = c; parent.alternate = a  (a = NoNode: null)
SetBranches(ifnode, c, a) ==
    LET test == ifnode.kids[1]
    IN  IF a = NoNode
        THEN [ifnode EXCEPT !.keys = <<"test", "consequent">>, !.kids = <<test, c>>]
        ELSE [ifnode EXCEPT !.keys = <<"test", "consequent", "alternate">>,
                            !.kids = <<test, c, a>>]

\* value of an operand of the test, as the eval computes it in the process
\* that runs the plugin: a literal is itself, process.env.NODE_ENV is read
\* from the host process, an identifier the eval scope does not bind throws
\* a ReferenceError
EvalOperand(e, env) ==
    IF e.type = "Literal"
    THEN [threw |-> FALSE, host |-> FALSE, vkind |-> e.vkind, value |-> e.value]
    ELSE IF IsNodeEnv(e)
    THEN [threw |-> FALSE, host |-> TRUE, vkind |-> "string", value |-> env]
    ELSE [threw |-> TRUE, host |-> FALSE, vkind |-> "", value |-> ""]

\* the comparison operators on numbers and strings (numerals canonical)
Compare(op, a, b) ==
    CASE op = "==" -> a.value = b.value
      [] op = "!=" -> a.value # b.value
      [] op = "===" -> a.vkind = b.vkind /\ a.value = b.value
      [] op = "!==" -> ~(a.vkind = b.vkind /\ a.value = b.value)

\* the statement a marker program runs: branch = <number>
RunMarker(prog) == prog.kids[1].kids[1].kids[2].value

\* eval(`(function () { var branch; ${astring.generate(parent)} return branch; })()`)
\* a test that is no comparison reads identifiers the eval scope does not
\* bind (a, b, f) and throws
EvalIf(ifnode, env) ==
    LET test == ifnode.kids[1]
        l == EvalOperand(test.kids[1], env)
        r == EvalOperand(test.kids[2], env)
        host == l.host \/ r.host
    IN  IF test.type # "BinaryExpression"
        THEN [threw |-> TRUE, host |-> FALSE, branch |-> ""]
        ELSE IF l.threw \/ r.threw THEN [threw |-> TRUE, host |-> host, branch |-> ""]
        ELSE IF Compare(test.operator, l, r)
             THEN [threw |-> FALSE, host |-> host, branch |-> RunMarker(ifnode.kids[2])]
             ELSE [threw |-> FALSE, host |-> host,
                   branch |-> IF Len(ifnode.kids) >= 3 THEN RunMarker(ifnode.kids[3])
                              ELSE "undefined"]

RECURSIVE ReplaceAt(_, _, _)
\* the tree with the node at path p replaced
ReplaceAt(root, p, n) ==
    IF p = <<>> THEN n
    ELSE [root EXCEPT !.kids[Head(p)] = ReplaceAt(@, Tail(p), n)]

\* faulty variant: the target is found wherever it is
findNodeInAst_Anywhere(b, target) == TRUE

\* findNodeInAst(ast, target): is target a node of the subtree at path b
findNodeInAst(b, target) == b # NoPath /\ IsPrefix(b, target)


(***************************************************************************)
(* Configuration and host                                                  *)
(***************************************************************************)
\* the ids transform is called with: process.cwd() + '/' + base + ext
Ids ==
    { [dir |-> "cwd", base |-> "main", ext |-> ".js"],
      [dir |-> "cwd", base |-> "lib", ext |-> ".js"],
      [dir |-> "cwd", base |-> "style", ext |-> ".css"],
      [dir |-> "cwd", base |-> "dep", ext |-> ".jsx"] }

\* options.extensions as a caller passes it
Extensions == {".js", ".jsx"}

\* options.namedExports
NamedExports == [f \in {"main.js"} |-> <<"foo", "bar", "f">>]

\* values of process.env.NODE_ENV in the process running the plugin
NodeEnvs == {"development", "production"}
\* nodeEnv before the transform call has read process.env.NODE_ENV: the value
\* is the host's and is fixed by the first read
Unobserved == "unobserved"

\* path.extname(id)
extname(i) == i.ext

\* id.replace(process.cwd(), '').replace(/\\/g, '/').substring(1)
namedExportFile(i) ==
    IF i.dir = "cwd" THEN i.base \o i.ext ELSE "/" \o i.base \o i.ext

(***************************************************************************)
(* The enter handler, one operator per block of the handler.  acc holds    *)
(* the locals of the transform call; threw is set when the handler throws. *)
(***************************************************************************)
\* the first ancestor, from the root down, that is an if statement with a
\* binary-expression test; 0 when there is none  (ancestors.some)
\* faulty variant: the test's type is not checked
FirstQualifying_AnyIf(tree, anc) ==
    LET Q == {i \in 1..Len(anc) : At(tree, anc[i]).type = "IfStatement"}
    IN  IF Q = {} THEN 0 ELSE CHOOSE i \in Q : \A j \in Q : i <= j

\* faulty variant: the last such ancestor, the one nearest to the call
FirstQualifying_Nearest(tree, anc) ==
    LET Q == {i \in 1..Len(anc) :
                 /\ At(tree, anc[i]).type = "IfStatement"
                 /\ At(tree, anc[i]).kids[1].type = "BinaryExpression"}
    IN  IF Q = {} THEN 0 ELSE CHOOSE i \in Q : \A j \in Q : j <= i

FirstQualifying(tree, anc) ==
    LET Q == {i \in 1..Len(anc) :
                 /\ At(tree, anc[i]).type = "IfStatement"
                 /\ At(tree, anc[i]).kids[1].type = "BinaryExpression"}
    IN  IF Q = {} THEN 0 ELSE CHOOSE i \in Q : \A j \in Q : i <= j

\* faulty variant: the branches are not put back after the eval
BranchCheck_NoRestore(tree, ifp, target, env) ==
    LET parent == At(tree, ifp)
        consequent == Prop(parent, ifp, "consequent")
        alternate == Prop(parent, ifp, "alternate")
        swapped == SetBranches(parent, Marker("0"), Marker("1"))
        r == EvalIf(swapped, env)
        branchToCheck == IF r.branch = "0" THEN consequent ELSE alternate
    IN  [threw |-> r.threw, host |-> r.host, ast |-> ReplaceAt(tree, ifp, swapped),
         include |-> ~r.threw /\ findNodeInAst(branchToCheck, target)]

\* the body of the ancestors.some callback for the if statement at ifp
BranchCheck(tree, ifp, target, env) ==
    LET parent == At(tree, ifp)
        consequent == Prop(parent, ifp, "consequent")
        alternate == Prop(parent, ifp, "alternate")
        swapped == SetBranches(parent, Marker("0"), Marker("1"))
        r == EvalIf(swapped, env)
        restored == SetBranches(swapped, At(tree, consequent), At(tree, alternate))
        branchToCheck == IF r.branch = "0" THEN consequent ELSE alternate
    IN  IF r.threw
        THEN [threw |-> TRUE, host |-> r.host, ast |-> ReplaceAt(tree, ifp, swapped),
              include |-> FALSE]
        ELSE [threw |-> FALSE, host |-> r.host, ast |-> ReplaceAt(tree, ifp, restored),
              include |-> findNodeInAst(branchToCheck, target)]

\* faulty variant: the alias does not carry the index
tempImportName_NoIndex(i) == "__require__import__"

tempImportName(i) == "__require__import__" \o ToString(i)

\* faulty variant: the argument is not checked to be a literal
IsLiteralRequire_AnyArgument(node) ==
    /\ node.type = "CallExpression"
    /\ node.kids[1].name = "require"
    /\ Cardinality(KidsOn(node, "arguments")) = 1

\* node.callee.name === 'require' && node.arguments.length === 1
\*   && node.arguments[0].type === 'Literal'
IsLiteralRequire(node) ==
    /\ node.type = "CallExpression"
    /\ node.kids[1].name = "require"
    /\ Cardinality(KidsOn(node, "arguments")) = 1
    /\ node.kids[2].type = "Literal"

\* faulty variant: a require that is skipped consumes an alias index as well
OnCallExpression_CountsSkipped(acc, tree, p, anc, env) ==
    LET node == At(tree, p)
        q == FirstQualifying(tree, anc)
        importee == node.kids[2].value
        alias == tempImportName(acc.importIndex)
        Rewrite(a) ==
            [a EXCEPT
               !.importIndex = @ + 1,
               !.s = prepend(overwrite(@, StartOf(tree, p), EndOf(tree, p),
                                       <<"__interopImport(" \o alias \o ")">>),
                             <<"import * as " \o alias \o " from '" \o importee \o "';">>),
               !.hasImports = TRUE]
    IN  IF ~IsLiteralRequire(node) THEN acc
        ELSE IF q = 0 THEN Rewrite(acc)
        ELSE LET chk == BranchCheck(tree, anc[q], p, env)
             IN  IF chk.threw
                 THEN [acc EXCEPT !.threw = TRUE, !.host = chk.host, !.ast = chk.ast]
                 ELSE IF ~chk.include
                 THEN [acc EXCEPT !.host = chk.host, !.ast = chk.ast,
                                  !.importIndex = @ + 1]
                 ELSE Rewrite([acc EXCEPT !.host = chk.host, !.ast = chk.ast])

OnCallExpression(acc, tree, p, anc, env) ==
    LET node == At(tree, p)
        q == FirstQualifying(tree, anc)
        importee == node.kids[2].value
        alias == tempImportName(acc.importIndex)
        Rewrite(a) ==
            [a EXCEPT
               !.importIndex = @ + 1,
               !.s = prepend(overwrite(@, StartOf(tree, p), EndOf(tree, p),
                                       <<"__interopImport(" \o alias \o ")">>),
                             <<"import * as " \o alias \o " from '" \o importee \o "';">>),
               !.hasImports = TRUE]
    IN  IF ~IsLiteralRequire(node) THEN acc
        ELSE IF q = 0 THEN Rewrite(acc)
        ELSE LET chk == BranchCheck(tree, anc[q], p, env)
             IN  IF chk.threw
                 THEN [acc EXCEPT !.threw = TRUE, !.host = chk.host, !.ast = chk.ast]
                 ELSE IF ~chk.include
                 THEN [acc EXCEPT !.host = chk.host, !.ast = chk.ast]
                 ELSE Rewrite([acc EXCEPT !.host = chk.host, !.ast = chk.ast])

\* faulty variant: only the dotted form module.exports is recognised
IsExportsProperty_NameOnly(property) == property.name = "exports"

\* left.property.name === 'exports' || left.property.value === 'exports'
IsExportsProperty(property) ==
    \/ property.name = "exports"
    \/ (property.type = "Literal" /\ property.vkind = "string" /\ property.value = "exports")

\* faulty variant: a module.exports target is rewritten without hasExports
OnAssignmentExpression_NoFlag(acc, tree, p) ==
    LET node == At(tree, p)
        lp == Append(p, 1)
        left == At(tree, lp)
        object == left.kids[1]
        property == left.kids[2]
        a1 == IF object.name = "module" /\ IsExportsProperty(property)
              THEN [acc EXCEPT !.s = overwrite(@, StartOf(tree, lp), EndOf(tree, lp),
                                               <<"__exports">>)]
              ELSE acc
        a2 == IF object.name = "exports"
              THEN [a1 EXCEPT !.hasExports = TRUE,
                              !.s = overwrite(@, StartOf(tree, Append(lp, 1)),
                                              EndOf(tree, Append(lp, 1)), <<"__exports">>),
                              !.exported = IF property.name # ""
                                           THEN Append(@, property.name) ELSE @]
              ELSE a1
    IN  IF node.type = "AssignmentExpression" /\ left.type = "MemberExpression"
        THEN a2 ELSE acc

OnAssignmentExpression(acc, tree, p) ==
    LET node == At(tree, p)
        lp == Append(p, 1)
        left == At(tree, lp)
        object == left.kids[1]
        property == left.kids[2]
        a1 == IF object.name = "module" /\ IsExportsProperty(property)
              THEN [acc EXCEPT !.hasExports = TRUE,
                               !.s = overwrite(@, StartOf(tree, lp), EndOf(tree, lp),
                                               <<"__exports">>)]
              ELSE acc
        a2 == IF object.name = "exports"
              THEN [a1 EXCEPT !.hasExports = TRUE,
                              !.s = overwrite(@, StartOf(tree, Append(lp, 1)),
                                              EndOf(tree, Append(lp, 1)), <<"__exports">>),
                              !.exported = IF property.name # ""
                                           THEN Append(@, property.name) ELSE @]
              ELSE a1
    IN  IF node.type = "AssignmentExpression" /\ left.type = "MemberExpression"
        THEN a2 ELSE acc

\* faulty variant: an exports that is the object of a member expression is left alone
OnIdentifier_NotObject(acc, tree, p) ==
    LET node == At(tree, p)
        parent == At(tree, Parent(p))
        parentObject == Prop(parent, Parent(p), "object")
    IN  IF /\ node.type = "Identifier" /\ node.name = "exports"
           /\ parentObject = NoPath
        THEN [acc EXCEPT !.hasExports = TRUE,
                         !.s = overwrite(@, StartOf(tree, p), EndOf(tree, p),
                                         <<"__exports">>)]
        ELSE acc

OnIdentifier(acc, tree, p) ==
    LET node == At(tree, p)
        parent == At(tree, Parent(p))
        parentObject == Prop(parent, Parent(p), "object")
    IN  IF /\ node.type = "Identifier" /\ node.name = "exports"
           /\ (parentObject = NoPath \/ parentObject = p)
        THEN [acc EXCEPT !.hasExports = TRUE,
                         !.s = overwrite(@, StartOf(tree, p), EndOf(tree, p),
                                         <<"__exports">>)]
        ELSE acc

OnLiteral(acc, tree, p) ==
    LET node == At(tree, p)
    IN  IF node.type = "Literal" /\ node.vkind = "string" /\ node.value = "__esModule"
        THEN [acc EXCEPT !.isESModule = TRUE] ELSE acc

\* faulty variant: the unit's own default export goes unnoticed
OnExportDefaultDeclaration_Unseen(acc, tree, p) == acc

OnExportDefaultDeclaration(acc, tree, p) ==
    IF At(tree, p).type = "ExportDefaultDeclaration"
    THEN [acc EXCEPT !.hasESDefaultExport = TRUE] ELSE acc

\* the whole enter callback up to ancestors.push; tree is the syntax tree
\* when the callback is called, a1.ast the tree branch evaluation leaves
enter(acc, tree, p, anc, env) ==
    LET a0 == [acc EXCEPT !.s = addSourcemapLocation(
                                    addSourcemapLocation(@, StartOf(tree, p)),
                                    EndOf(tree, p))]
        a1 == OnCallExpression(a0, tree, p, anc, env)
    IN  IF a1.threw THEN a1
        ELSE OnExportDefaultDeclaration(OnLiteral(OnIdentifier(
                 OnAssignmentExpression(a1, a1.ast, p), a1.ast, p), a1.ast, p), a1.ast, p)

(***************************************************************************)
(* After the traversal                                                     *)
(***************************************************************************)
\* faulty variant: only variable declarations are looked at
findTopLevelDeclaration_VariablesOnly(tree, name) ==
    \E i \in 1..Len(tree.kids) :
        LET node == tree.kids[i]
        IN  /\ node.type = "VariableDeclaration"
            /\ \E d \in 1..Len(node.kids) : node.kids[d].kids[1].name = name

findTopLevelDeclaration(tree, name) ==
    \E i \in 1..Len(tree.kids) :
        LET node == tree.kids[i]
        IN  \/ /\ node.type = "VariableDeclaration"
               /\ \E d \in 1..Len(node.kids) : node.kids[d].kids[1].name = name
            \/ /\ node.type = "FunctionDeclaration"
               /\ node.kids[1].name = name
            \/ /\ node.type = "ClassDeclaration"
               /\ node.kids[1].name = name

\* names.join(', ')
RECURSIVE Join(_, _)
Join(names, sep) ==
    IF Len(names) <= 1 THEN names
    ELSE <<Head(names), sep>> \o Join(Tail(names), sep)

InSeq(x, q) == \E i \in 1..Len(q) : q[i] = x

\* faulty variant: the new bindings are inserted at the start of the unit
exportNames_AtStart(tree, names, ms) ==
    LET IsTop(n) == findTopLevelDeclaration(tree, n)
        topLevelNames == SelectSeq(names, IsTop)
        IsOther(n) == ~InSeq(n, topLevelNames)
        otherNames == SelectSeq(names, IsOther)
        ExportVar(k) == "export var " \o otherNames[k] \o " = __exports."
                           \o otherNames[k] \o ";"
        s1 == IF Len(topLevelNames) > 0
              THEN append(ms, <<"export {">> \o Join(topLevelNames, ",") \o <<"};">>)
              ELSE ms
    IN  IF Len(otherNames) > 0
        THEN prepend(s1, [k \in 1..Len(otherNames) |-> ExportVar(k)])
        ELSE s1

exportNames(tree, names, ms) ==
    LET IsTop(n) == findTopLevelDeclaration(tree, n)
        topLevelNames == SelectSeq(names, IsTop)
        IsOther(n) == ~InSeq(n, topLevelNames)
        otherNames == SelectSeq(names, IsOther)
        ExportVar(k) == "export var " \o otherNames[k] \o " = __exports."
                           \o otherNames[k] \o ";"
        s1 == IF Len(topLevelNames) > 0
              THEN append(ms, <<"export {">> \o Join(topLevelNames, ",") \o <<"};">>)
              ELSE ms
    IN  IF Len(otherNames) > 0
        THEN append(s1, [k \in 1..Len(otherNames) |-> ExportVar(k)])
        ELSE s1

InteropHelper == "function __interopImport(ex) { ... }"

(***************************************************************************)
(* What the emitted helper computes when the bundle runs.  A namespace is  *)
(* given by what its properties __esModule, default and message read as;   *)
(* a property the namespace does not have reads as undefined.              *)
(***************************************************************************)
Undefined == "undefined"
Values == {Undefined, "null", "false", "true", "0", "''", "123", "'hello'", "{}", "function"}
Falsy == {Undefined, "null", "false", "0", "''"}
Namespaces ==
    [__esModule : {Undefined, "true", "false"},
     default : Values \ {"true"},
     message : {Undefined, "'hello world'"}]

Whole(ns) == [kind |-> "namespace", ns |-> ns, v |-> ""]
Value(v) == [kind |-> "value", ns |-> <<>>, v |-> v]

\* faulty variant: the test of the default is if (ex.default)
interopImport_Truthy(ex) ==
    IF ex.__esModule \notin Falsy THEN Whole(ex)
    ELSE IF ex.default \notin Falsy THEN Value(ex.default)
    ELSE Whole(ex)

\* function __interopImport(ex)
interopImport(ex) ==
    IF ex.__esModule \notin Falsy THEN Whole(ex)
    ELSE IF ex.default # Undefined THEN Value(ex.default)
    ELSE Whole(ex)

\* faulty variant: a name written twice is kept twice
FilterExported_NoDedupe(ex) ==
    LET NotDefault(e) == e # "default"
    IN  SelectSeq(ex, NotDefault)

\* exported.filter((e, i, a) => e !== 'default' && a.indexOf(e) === i)
FilterExported(ex) ==
    LET Keep == {i \in 1..Len(ex) : ex[i] # "default" /\ \A j \in 1..(i - 1) : ex[j] # ex[i]}
        RECURSIVE Pick(_)
        Pick(i) == IF i > Len(ex) THEN <<>>
                   ELSE (IF i \in Keep THEN <<ex[i]>> ELSE <<>>) \o Pick(i + 1)
    IN  Pick(1)

\* faulty variant: the default property is exported whatever the unit is
defaultExport_Property(isES) == <<";", "export default __exports.default;">>

\* the default export appended for a unit that has none of its own
defaultExport(isES) ==
    IF isES THEN <<";", "export default __exports.default;">>
    ELSE <<";", "export default __exports;">>

\* faulty variant: the marker export is appended before the candidates' exports
emit_MarkerFirst(acc, i) ==
    LET s1 == IF acc.hasImports THEN prepend(acc.s, <<InteropHelper>>) ELSE acc.s
        s2 == prepend(s1, <<"var __exports = {};">>)
        s3 == IF acc.isESModule
              THEN LET d == IF ~acc.hasESDefaultExport
                            THEN append(s2, defaultExport(TRUE))
                            ELSE s2
                       n == append(d, <<";", "var __esModule = true; export { __esModule };">>)
                   IN  exportNames(acc.ast, FilterExported(acc.exported), n)
              ELSE IF ~acc.hasESDefaultExport
                   THEN append(s2, defaultExport(FALSE))
                   ELSE s2
        s4 == IF namedExportFile(i) \in DOMAIN NamedExports
              THEN exportNames(acc.ast, NamedExports[namedExportFile(i)], s3)
              ELSE s3
    IN  [acc EXCEPT !.s = IF acc.hasExports THEN s4 ELSE s1,
                    !.exported = IF acc.hasExports /\ acc.isESModule
                                 THEN FilterExported(@) ELSE @]

\* faulty variant: the helper is prepended whether or not a require was rewritten
emit_HelperAlways(acc, i) ==
    LET s1 == prepend(acc.s, <<InteropHelper>>)
        s2 == prepend(s1, <<"var __exports = {};">>)
        s3 == IF acc.isESModule
              THEN LET d == IF ~acc.hasESDefaultExport
                            THEN append(s2, defaultExport(TRUE))
                            ELSE s2
                       n == exportNames(acc.ast, FilterExported(acc.exported), d)
                   IN  append(n, <<";", "var __esModule = true; export { __esModule };">>)
              ELSE IF ~acc.hasESDefaultExport
                   THEN append(s2, defaultExport(FALSE))
                   ELSE s2
        s4 == IF namedExportFile(i) \in DOMAIN NamedExports
              THEN exportNames(acc.ast, NamedExports[namedExportFile(i)], s3)
              ELSE s3
    IN  [acc EXCEPT !.s = IF acc.hasExports THEN s4 ELSE s1,
                    !.exported = IF acc.hasExports /\ acc.isESModule
                                 THEN FilterExported(@) ELSE @]

\* the statements of transform after estree.walk, up to the return
emit(acc, i) ==
    LET s1 == IF acc.hasImports THEN prepend(acc.s, <<InteropHelper>>) ELSE acc.s
        s2 == prepend(s1, <<"var __exports = {};">>)
        s3 == IF acc.isESModule
              THEN LET d == IF ~acc.hasESDefaultExport
                            THEN append(s2, defaultExport(TRUE))
                            ELSE s2
                       n == exportNames(acc.ast, FilterExported(acc.exported), d)
                   IN  append(n, <<";", "var __esModule = true; export { __esModule };">>)
              ELSE IF ~acc.hasESDefaultExport
                   THEN append(s2, defaultExport(FALSE))
                   ELSE s2
        s4 == IF namedExportFile(i) \in DOMAIN NamedExports
              THEN exportNames(acc.ast, NamedExports[namedExportFile(i)], s3)
              ELSE s3
    IN  [acc EXCEPT !.s = IF acc.hasExports THEN s4 ELSE s1,
                    !.exported = IF acc.hasExports /\ acc.isESModule
                                 THEN FilterExported(@) ELSE @]

(***************************************************************************)
(* The state machine: one transform call on one plugin instance            *)
(***************************************************************************)
VARIABLES pc, nodeEnv, code, id, ast, s, ancestors, cur,
          importIndex, isESModule, hasExports, hasImports, hasESDefaultExport,
          exported, result, interop, calls, prior

vars == <<pc, nodeEnv, code, id, ast, s, ancestors, cur,
          importIndex, isESModule, hasExports, hasImports, hasESDefaultExport,
          exported, result, interop, calls, prior>>

NoResult == [defined |-> FALSE, code |-> <<>>]

Acc == [importIndex |-> importIndex, isESModule |-> isESModule,
        hasExports |-> hasExports, hasImports |-> hasImports,
        hasESDefaultExport |-> hasESDefaultExport, exported |-> exported,
        s |-> s, ast |-> ast, threw |-> FALSE, host |-> FALSE]

SetAcc(a) ==
    /\ importIndex' = a.importIndex
    /\ isESModule' = a.isESModule
    /\ hasExports' = a.hasExports
    /\ hasImports' = a.hasImports
    /\ hasESDefaultExport' = a.hasESDefaultExport
    /\ exported' = a.exported
    /\ s' = a.s
    /\ ast' = a.ast

\* no call of the emitted helper is modelled
NoCall == [pc |-> "none", ex |-> <<>>, ret |-> <<>>]

\* the state before transform is called
Idle ==
    /\ pc = "idle"
    /\ nodeEnv = Unobserved
    /\ code = <<>>
    /\ id = [dir |-> "", base |-> "", ext |-> ""]
    /\ ast = NoNode
    /\ s = NewMagicString(<<>>)
    /\ ancestors = <<>>
    /\ cur = <<>>
    /\ importIndex = 0
    /\ isESModule = FALSE
    /\ hasExports = FALSE
    /\ hasImports = FALSE
    /\ hasESDefaultExport = FALSE
    /\ exported = <<>>
    /\ result = NoResult
    /\ calls = 0
    /\ prior = 0

Init == Idle /\ interop = NoCall

\* transform(code, id) up to the start of the traversal, on a unit of U: the
\* locals of the call are created anew; a call that returns at once creates
\* none
\* faulty variant: the alias counter is kept from the call before
transform_KeepCounter(U) ==
    /\ \E u \in U, i \in Ids :
          /\ code' = Tokens(Program(u))
          /\ id' = i
          /\ IF extname(i) # ".js"
             THEN /\ pc' = "done"
                  /\ s' = NewMagicString(<<>>)
                  /\ ast' = NoNode
             ELSE /\ pc' = "walk"
                  /\ s' = NewMagicString(Tokens(Program(u)))
                  /\ ast' = parse(Program(u))
    /\ importIndex' = importIndex
    /\ isESModule' = FALSE
    /\ hasExports' = FALSE
    /\ hasImports' = FALSE
    /\ hasESDefaultExport' = FALSE
    /\ exported' = <<>>
    /\ ancestors' = <<>>
    /\ cur' = <<>>
    /\ result' = NoResult
    /\ calls' = calls + 1
    /\ prior' = importIndex
    /\ UNCHANGED <<nodeEnv, interop>>

transform(U) ==
    /\ \E u \in U, i \in Ids :
          /\ code' = Tokens(Program(u))
          /\ id' = i
          /\ IF extname(i) # ".js"
             THEN /\ pc' = "done"
                  /\ s' = NewMagicString(<<>>)
                  /\ ast' = NoNode
             ELSE /\ pc' = "walk"
                  /\ s' = NewMagicString(Tokens(Program(u)))
                  /\ ast' = parse(Program(u))
    /\ importIndex' = 0
    /\ isESModule' = FALSE
    /\ hasExports' = FALSE
    /\ hasImports' = FALSE
    /\ hasESDefaultExport' = FALSE
    /\ exported' = <<>>
    /\ ancestors' = <<>>
    /\ cur' = <<>>
    /\ result' = NoResult
    /\ calls' = calls + 1
    /\ prior' = importIndex
    /\ UNCHANGED <<nodeEnv, interop>>

\* the one call of a run
Transform ==
    /\ pc = "idle"
    /\ transform(Units)

\* faulty variant: leave does not pop the ancestor stack
leave_NoPop(anc) == anc

\* leave: (node, parent) => { ancestors.pop(); }
leave(anc) == SubSeq(anc, 1, Len(anc) - 1)

RECURSIVE Ascend(_, _, _)
\* estree.walk once every kid of the node at p has been visited: leave is
\* called on the node, then the walk enters the node's next sibling, or
\* leaves the parent in the same way when there is none; done when the
\* root has been left
Ascend(tree, p, anc) ==
    IF p = <<>>
    THEN [done |-> TRUE, cur |-> p, ancestors |-> leave(anc)]
    ELSE IF p[Len(p)] < Len(At(tree, Parent(p)).kids)
    THEN [done |-> FALSE, cur |-> Append(Parent(p), p[Len(p)] + 1),
          ancestors |-> leave(anc)]
    ELSE Ascend(tree, Parent(p), leave(anc))

\* estree.walk visits the node at cur: it calls enter on it, which pushes
\* it, and goes to its first kid; after a node without kids it calls the
\* leave handlers that are due up to the next node to enter
Visit ==
    /\ pc = "walk"
    /\ \E env \in (IF nodeEnv = Unobserved /\ IsLiteralRequire(At(ast, cur))
                    THEN NodeEnvs ELSE {nodeEnv}) :
       \E a \in {enter(Acc, ast, cur, ancestors, env)} :
           /\ SetAcc(a)
           /\ nodeEnv' = IF a.host THEN env ELSE nodeEnv
           /\ IF a.threw
              THEN /\ pc' = "failed"
                   /\ UNCHANGED <<ancestors, cur>>
              ELSE IF Len(At(ast, cur).kids) > 0
              THEN /\ pc' = pc
                   /\ ancestors' = Append(ancestors, cur)
                   /\ cur' = Append(cur, 1)
              ELSE \E nx \in {Ascend(a.ast, cur, Append(ancestors, cur))} :
                   /\ pc' = IF nx.done THEN "emit" ELSE pc
                   /\ ancestors' = nx.ancestors
                   /\ cur' = nx.cur
    /\ UNCHANGED <<code, id, result, interop, calls, prior>>

\* the emission sequence and the return
Emit ==
    /\ pc = "emit"
    /\ \E a \in {emit(Acc, id)} :
           /\ SetAcc(a)
           /\ result' = [defined |-> TRUE, code |-> toString(a.s)]
    /\ pc' = "done"
    /\ UNCHANGED <<nodeEnv, code, id, ancestors, cur, interop, calls, prior>>

Next == Transform \/ Visit \/ Emit

Spec == Init /\ [][Next]_vars

(***************************************************************************)
(* The emitted helper at run time: a call __interopImport(ex) on an        *)
(* imported namespace                                                      *)
(***************************************************************************)
InitInterop ==
    /\ Idle
    /\ interop \in {[pc |-> "called", ex |-> ns, ret |-> <<>>] : ns \in Namespaces}

InteropImport ==
    /\ interop.pc = "called"
    /\ interop' = [interop EXCEPT !.pc = "returned", !.ret = interopImport(interop.ex)]
    /\ UNCHANGED <<pc, nodeEnv, code, id, ast, s, ancestors, cur, importIndex,
                   isESModule, hasExports, hasImports, hasESDefaultExport, exported,
                   result, calls, prior>>

NextInterop == InteropImport

SpecInterop == InitInterop /\ [][NextInterop]_vars

(***************************************************************************)
(* One plugin instance over the units of a build: transform is called      *)
(* again once the call before it has returned or thrown                    *)
(***************************************************************************)
MaxCalls == 2
MaxCallStmts == 1

\* the statements of the units of the build: a require, a test on the host,
\* a named export, module.exports set to a require, the ES marker, a default
\* export, a test that throws
CallTemplates == <<1, 7, 20, 27, 28, 29, 32>>

CallUnits ==
    {[i \in 1..Len(u) |-> Library[CallTemplates[u[i]]]] :
        u \in {q \in Selections(Len(CallTemplates), MaxCallStmts) :
                 \A i \in 1..(Len(q) - 1) : q[i] <= q[i + 1]}}

TransformNext ==
    /\ pc \in {"idle", "done", "failed"}
    /\ calls < MaxCalls
    /\ transform(CallUnits)

NextCalls == TransformNext \/ Visit \/ Emit

SpecCalls == Init /\ [][NextCalls]_vars


(***************************************************************************)
(* Vocabulary of the properties                                            *)
(***************************************************************************)
RECURSIVE PathsBelow(_, _)
\* the paths of the nodes of the subtree of node, which is at path p
PathsBelow(node, p) ==
    {p} \cup UNION {PathsBelow(node.kids[k], Append(p, k)) : k \in 1..Len(node.kids)}

\* the nodes of the unit as parsed
Paths == PathsBelow(ast, <<>>)

\* the transform call has returned its result
Returned == pc = "done" /\ result.defined

\* the proper ancestors of p
Above(p) == {SubSeq(p, 1, n) : n \in 0..(Len(p) - 1)}

IsIf(p) == At(ast, p).type = "IfStatement"
\* if statements whose test is a binary expression
IsBinaryIf(p) == IsIf(p) /\ At(ast, p).kids[1].type = "BinaryExpression"

LiteralRequires == {p \in Paths : IsLiteralRequire(At(ast, p))}

\* the edits made on exactly the source range of the node at p
EditsOn(p) == {e \in s.edits : e.start = StartOf(ast, p) /\ e.end = EndOf(ast, p)}
\* the edits that touch the source range of the node at p
EditsIn(p) == {e \in s.edits : e.start < EndOf(ast, p) /\ StartOf(ast, p) < e.end}

\* the part of the result rendered from the source range of the node at p
RECURSIVE PatchedUpTo(_, _, _)
PatchedUpTo(ms, pos, to) ==
    IF pos >= to THEN <<>>
    ELSE IF \E e \in ms.edits : e.start = pos
         THEN LET e == CHOOSE x \in ms.edits : x.start = pos
              IN  e.content \o PatchedUpTo(ms, e.end, to)
         ELSE <<ms.original[pos + 1]>> \o PatchedUpTo(ms, pos + 1, to)
Rendered(p) == PatchedUpTo(s, StartOf(ast, p), EndOf(ast, p))
Source(p) == SubSeq(code, StartOf(ast, p) + 1, EndOf(ast, p))

Aliases == {tempImportName(i) : i \in 0..(importIndex - 1)}
ImportOf(alias, spec) == "import * as " \o alias \o " from '" \o spec \o "';"
\* the call at p is replaced by the interop helper applied to alias, which a
\* namespace import at the start of the unit binds to the call's specifier
RewrittenAs(p, alias) ==
    /\ EditsIn(p) = {[start |-> StartOf(ast, p), end |-> EndOf(ast, p),
                      content |-> <<"__interopImport(" \o alias \o ")">>]}
    /\ InSeq(ImportOf(alias, At(ast, p).kids[2].value), s.intro)
Rewritten(p) == \E alias \in Aliases : RewrittenAs(p, alias)

\* the call at p is as it was written and nothing was imported for it
Untouched(p) ==
    /\ EditsIn(p) = {}
    /\ Rendered(p) = Source(p)


\* the enclosing if statements of p with a binary test, and the one transform
\* evaluates for a require call at p: the outermost
BinaryIfsAbove(p) == {a \in Above(p) : IsBinaryIf(a)}
EvaluatedIf(p) == CHOOSE a \in BinaryIfsAbove(p) : \A b \in BinaryIfsAbove(p) : Len(a) <= Len(b)

\* the operands of the test of the if statement at ifp are literals
LiteralTest(ifp) ==
    LET test == At(ast, ifp).kids[1]
    IN  test.kids[1].type = "Literal" /\ test.kids[2].type = "Literal"
\* the test reads process.env.NODE_ENV against a literal
HostTest(ifp) ==
    LET test == At(ast, ifp).kids[1]
    IN  IsNodeEnv(test.kids[1]) /\ test.kids[2].type = "Literal"
\* value of a test that is a comparison of literals or of the host's NODE_ENV
TestValue(ifp) ==
    LET test == At(ast, ifp).kids[1]
    IN  Compare(test.operator, EvalOperand(test.kids[1], nodeEnv),
                EvalOperand(test.kids[2], nodeEnv))

InConsequent(ifp, p) == IsPrefix(Append(ifp, 2), p)
InAlternate(ifp, p) == Len(At(ast, ifp).kids) >= 3 /\ IsPrefix(Append(ifp, 3), p)
\* p lies in the branch of the if statement at ifp that fires
InFiredBranch(ifp, p) ==
    IF TestValue(ifp) THEN InConsequent(ifp, p) ELSE InAlternate(ifp, p)
\* p lies in the branch that does not fire
InDeadBranch(ifp, p) ==
    IF TestValue(ifp) THEN InAlternate(ifp, p) ELSE InConsequent(ifp, p)

\* the import statements queued at the start of the unit
ImportStatements ==
    {i \in 1..Len(s.intro) : s.intro[i] \notin {InteropHelper, "var __exports = {};"}}

\* the inclusion policy includes the literal require call at p
Included(p) ==
    \/ BinaryIfsAbove(p) = {}
    \/ /\ BinaryIfsAbove(p) # {}
       /\ LiteralTest(EvaluatedIf(p)) \/ HostTest(EvaluatedIf(p))
       /\ InFiredBranch(EvaluatedIf(p), p)

(***************************************************************************)
(* C1: every literal require call the inclusion policy includes, at any    *)
(* nesting depth, has exactly its source range replaced by                 *)
(* __interopImport(A) for an alias A no other call gets, a namespace       *)
(* import of its specifier as A is inserted at the start of the unit, and  *)
(* hasImports is set.                                                      *)
(***************************************************************************)
C1_IncludedRequireRewritten ==
    Returned =>
        /\ SubSeq(result.code, 1, Len(s.intro)) = s.intro
        /\ \A p \in LiteralRequires :
              Included(p) =>
                  /\ hasImports
                  /\ \E alias \in Aliases :
                        /\ RewrittenAs(p, alias)
                        /\ Rendered(p) = <<"__interopImport(" \o alias \o ")">>
                        /\ \A q \in LiteralRequires \ {p} : ~RewrittenAs(q, alias)

\* a require call inside a function body and one at top level were rewritten
C1_Witness ==
    /\ Returned
    /\ \E p, q \in LiteralRequires :
          /\ \E a \in Above(p) : At(ast, a).type = "FunctionDeclaration"
          /\ Above(q) \cap {a \in Paths : At(ast, a).type = "FunctionDeclaration"} = {}
          /\ Included(p) /\ Rewritten(p)
          /\ Included(q) /\ Rewritten(q)

(***************************************************************************)
(* C2: a literal require call in the branch that does not fire of the if   *)
(* statement evaluated for it (binary comparison of literals) is skipped:  *)
(* its handler queues no import, makes no edit, consumes no alias index    *)
(* and does not set hasImports, and its text is rendered as written.       *)
(***************************************************************************)
\* the enter handler is about to run on a literal require call in a dead branch
AtSkippedRequire ==
    /\ pc = "walk"
    /\ IsLiteralRequire(At(ast, cur))
    /\ BinaryIfsAbove(cur) # {}
    /\ LiteralTest(EvaluatedIf(cur))
    /\ InDeadBranch(EvaluatedIf(cur), cur)

SkippedRequires ==
    {p \in LiteralRequires :
        /\ BinaryIfsAbove(p) # {}
        /\ LiteralTest(EvaluatedIf(p))
        /\ InDeadBranch(EvaluatedIf(p), p)}

C2_DeadBranchSkipped ==
    /\ [](Returned =>
            /\ \A p \in SkippedRequires : Untouched(p)
            /\ Cardinality(ImportStatements) = importIndex
            /\ Cardinality(ImportStatements)
                 = Cardinality({p \in LiteralRequires \ SkippedRequires : Rewritten(p)}))
    /\ [][AtSkippedRequire =>
            /\ pc' = "walk"
            /\ importIndex' = importIndex
            /\ hasImports' = hasImports
            /\ s'.edits = s.edits /\ s'.intro = s.intro /\ s'.outro = s.outro]_vars

\* a unit with a skipped require and nothing else to import has returned
C2_Witness ==
    /\ Returned
    /\ SkippedRequires # {}
    /\ ~hasImports
    /\ \A p \in SkippedRequires : Untouched(p)


(***************************************************************************)
(* C3: of the requires directly under an if statement whose test compares  *)
(* literals, those in the consequent are rewritten and imported iff the    *)
(* test is true and those in the alternate iff it is false; the others     *)
(* stay as written, so with no else a false test imports nothing.          *)
(***************************************************************************)
IfsAbove(p) == {a \in Above(p) : IsIf(a)}
\* the literal requires whose one enclosing if statement is the one at ifp
RequiresUnder(ifp) == {p \in LiteralRequires : IfsAbove(p) = {ifp}}
LiteralIfs == {ifp \in Paths : IsBinaryIf(ifp) /\ LiteralTest(ifp)}

C3_OneBranchImported ==
    Returned =>
        \A ifp \in LiteralIfs : \A p \in RequiresUnder(ifp) :
            /\ InConsequent(ifp, p) => (Rewritten(p) <=> TestValue(ifp))
            /\ InAlternate(ifp, p) => (Rewritten(p) <=> ~TestValue(ifp))
            /\ Rewritten(p) \/ Untouched(p)
            /\ Cardinality(ImportStatements)
                 = Cardinality({q \in LiteralRequires : Rewritten(q)})

\* an if / else with a false test imported its alternate only, and an if with
\* a true test its consequent
C3_Witness ==
    /\ Returned
    /\ \E ifp \in LiteralIfs : \E p, q \in RequiresUnder(ifp) :
          /\ ~TestValue(ifp)
          /\ InConsequent(ifp, p) /\ Untouched(p)
          /\ InAlternate(ifp, q) /\ Rewritten(q)
    /\ \E ifp \in LiteralIfs : \E p \in RequiresUnder(ifp) :
          /\ TestValue(ifp)
          /\ InConsequent(ifp, p) /\ Rewritten(p)

(***************************************************************************)
(* C4 as claimed: a literal require whose nearest enclosing if statement   *)
(* has a test that is no binary comparison is always rewritten and         *)
(* imported, whatever encloses that if statement.                          *)
(***************************************************************************)
NearestIf(p) == CHOOSE a \in IfsAbove(p) : \A b \in IfsAbove(p) : Len(b) <= Len(a)
UnanalyzableRequires ==
    {p \in LiteralRequires : IfsAbove(p) # {} /\ ~IsBinaryIf(NearestIf(p))}

C4_Original ==
    Returned => \A p \in UnanalyzableRequires : Rewritten(p)

(***************************************************************************)
(* C4 as amended: such a require is rewritten and imported when no         *)
(* enclosing if statement has a binary-comparison test, and transform      *)
(* fails on no unit for a test that is no binary comparison; when an       *)
(* enclosing if statement has a binary-comparison test, that one is        *)
(* evaluated and the require is rewritten iff it lies in the branch that   *)
(* fires.                                                                  *)
(***************************************************************************)
C4_UnanalyzableIncluded ==
    /\ Returned =>
          \A p \in UnanalyzableRequires :
              /\ BinaryIfsAbove(p) = {} => Rewritten(p)
              /\ (BinaryIfsAbove(p) # {} /\ LiteralTest(EvaluatedIf(p)))
                     => (Rewritten(p) <=> InFiredBranch(EvaluatedIf(p), p))
    /\ pc = "failed" => \E n \in 0..(Len(cur) - 1) : IsBinaryIf(SubSeq(cur, 1, n))

\* a require under a logical, unary, call or identifier test was rewritten
C4_Witness ==
    /\ Returned
    /\ \E p \in UnanalyzableRequires :
          /\ BinaryIfsAbove(p) = {}
          /\ At(ast, NearestIf(p)).kids[1].type
                \in {"LogicalExpression", "UnaryExpression", "CallExpression", "Identifier"}
          /\ Rewritten(p)

(***************************************************************************)
(* C5: when the test of the enclosing if statement compares a value of the *)
(* host environment that no configuration resolves                         *)
(* (process.env.NODE_ENV === 'development'), the requires of both branches *)
(* are rewritten and imported and the call does not fail.                  *)
(***************************************************************************)
HostRequires ==
    {p \in LiteralRequires : BinaryIfsAbove(p) # {} /\ HostTest(EvaluatedIf(p))}

C5_HostTestImportsBoth ==
    /\ Returned => \A p \in HostRequires : Rewritten(p)
    /\ pc = "failed" => \A n \in 0..(Len(cur) - 1) :
                           IsBinaryIf(SubSeq(cur, 1, n)) => ~HostTest(SubSeq(cur, 1, n))

(***************************************************************************)
(* C6: the handler of a require call that does not have exactly one        *)
(* argument, or whose argument is no literal, does not fail and changes    *)
(* nothing: no edit, no import, no alias index, hasImports as it was; the  *)
(* call is rendered as written.                                            *)
(***************************************************************************)
IsPassedRequire(node) ==
    /\ node.type = "CallExpression"
    /\ node.kids[1].type = "Identifier" /\ node.kids[1].name = "require"
    /\ \/ Len(node.kids) # 2
       \/ node.kids[2].type # "Literal"
PassedRequires == {p \in Paths : IsPassedRequire(At(ast, p))}

C6_NonLiteralRequirePassed ==
    /\ [](Returned => \A p \in PassedRequires : Untouched(p))
    /\ [][(pc = "walk" /\ IsPassedRequire(At(ast, cur))) =>
            /\ pc' = "walk"
            /\ importIndex' = importIndex
            /\ hasImports' = hasImports
            /\ s'.edits = s.edits /\ s'.intro = s.intro /\ s'.outro = s.outro]_vars

\* a unit with a require of a variable and a require of two literals returned
C6_Witness ==
    /\ Returned
    /\ \E p, q \in PassedRequires :
          /\ Len(At(ast, p).kids) = 2 /\ At(ast, p).kids[2].type = "Identifier"
          /\ Len(At(ast, q).kids) = 3
          /\ Untouched(p) /\ Untouched(q)
    /\ ~hasImports


(***************************************************************************)
(* C7: for every assignment to module.exports or module['exports'] the     *)
(* whole left-hand member expression is replaced by __exports and          *)
(* hasExports is set; the edit does not reach the right-hand side.         *)
(***************************************************************************)
IsModuleExports(node) ==
    /\ node.type = "MemberExpression"
    /\ node.kids[1].type = "Identifier" /\ node.kids[1].name = "module"
    /\ \/ ~node.computed /\ node.kids[2].type = "Identifier" /\ node.kids[2].name = "exports"
       \/ /\ node.computed /\ node.kids[2].type = "Literal"
          /\ node.kids[2].vkind = "string" /\ node.kids[2].value = "exports"
Assignments == {p \in Paths : At(ast, p).type = "AssignmentExpression"}
ModuleExportsAssignments == {p \in Assignments : IsModuleExports(At(ast, Append(p, 1)))}
ExportsEdit(p) ==
    [start |-> StartOf(ast, p), end |-> EndOf(ast, p), content |-> <<"__exports">>]
\* values whose text no handler edits
IsPlainValue(node) ==
    \/ node.type \in {"ObjectExpression", "FunctionExpression"}
    \/ node.type = "Literal" /\ node.value # "__esModule"

C7_ModuleExportsTargetRewritten ==
    Returned =>
        \A p \in ModuleExportsAssignments :
            LET left == Append(p, 1)
                right == Append(p, 2)
            IN  /\ hasExports
                /\ EditsIn(left) = {ExportsEdit(left)}
                /\ Rendered(left) = <<"__exports">>
                /\ EditsIn(left) \cap EditsIn(right) = {}
                /\ IsPlainValue(At(ast, right)) => Rendered(right) = Source(right)

\* a unit assigning through both the dotted and the string-keyed form returned
C7_Witness ==
    /\ Returned
    /\ \E p, q \in ModuleExportsAssignments :
          /\ ~At(ast, Append(p, 1)).computed
          /\ At(ast, Append(q, 1)).computed
          /\ Rendered(Append(p, 1)) = <<"__exports">>
          /\ Rendered(Append(q, 1)) = <<"__exports">>

(***************************************************************************)
(* C8: for every assignment to exports.NAME only the object exports is     *)
(* rewritten to __exports, hasExports is set and NAME is recorded; the     *)
(* names recorded are exactly the written ones, a computed write           *)
(* exports[expr] recording none.                                           *)
(***************************************************************************)
IsExportsMember(node) ==
    /\ node.type = "MemberExpression"
    /\ node.kids[1].type = "Identifier" /\ node.kids[1].name = "exports"
ExportsWrites == {p \in Assignments : IsExportsMember(At(ast, Append(p, 1)))}
WrittenNames ==
    {At(ast, Append(p, 1)).kids[2].name :
        p \in {q \in ExportsWrites : ~At(ast, Append(q, 1)).computed}}

C8_ExportsWriteRecorded ==
    pc = "emit" =>
        /\ \A p \in ExportsWrites :
              LET left == Append(p, 1)
                  object == Append(left, 1)
              IN  /\ hasExports
                  /\ EditsIn(left) = {ExportsEdit(object)}
        /\ {exported[i] : i \in 1..Len(exported)} = WrittenNames

(***************************************************************************)
(* C9 as claimed: an identifier exports is rewritten to __exports exactly  *)
(* when it is used as a value and is not the object of a member expression *)
(* being read; as the object of a read member expression or the property   *)
(* of a member expression it is left as written.                           *)
(***************************************************************************)
ExportsIdentifiers ==
    {p \in Paths : At(ast, p).type = "Identifier" /\ At(ast, p).name = "exports"}
IsMember(p) == At(ast, p).type = "MemberExpression"
IsPropertyOfMember(p) == p # <<>> /\ IsMember(Parent(p)) /\ p = Append(Parent(p), 2)
IsObjectOfMember(p) == p # <<>> /\ IsMember(Parent(p)) /\ p = Append(Parent(p), 1)
\* the member expression at m is the target of an assignment
IsWritten(m) ==
    m # <<>> /\ At(ast, Parent(m)).type = "AssignmentExpression" /\ m = Append(Parent(m), 1)
RewrittenIdentifier(p) == ExportsEdit(p) \in s.edits

C9_Original ==
    Returned =>
        \A p \in ExportsIdentifiers :
            RewrittenIdentifier(p)
                <=> /\ ~IsPropertyOfMember(p)
                    /\ ~(IsObjectOfMember(p) /\ ~IsWritten(Parent(p)))

(***************************************************************************)
(* C9 as amended: an identifier exports is rewritten to __exports exactly  *)
(* when it is not the property of a member expression: f(exports), typeof  *)
(* exports and the object of a member expression, read (g(exports.x)) or   *)
(* written, are rewritten; the property of a member expression             *)
(* (module.exports, a.exports, a[exports]) gets no edit of its own.        *)
(***************************************************************************)
C9_ExportsIdentifierRewritten ==
    Returned =>
        \A p \in ExportsIdentifiers :
            /\ RewrittenIdentifier(p) <=> ~IsPropertyOfMember(p)
            /\ ~IsPropertyOfMember(p) => Rendered(p) = <<"__exports">>
            /\ (IsPropertyOfMember(p) /\ ~IsWritten(Parent(p))) => Rendered(p) = Source(p)

\* exports was rewritten as an argument, and as the object of a member
\* expression that is read
C9_Witness ==
    /\ Returned
    /\ \E p, q \in ExportsIdentifiers :
          /\ At(ast, Parent(p)).type = "CallExpression" /\ RewrittenIdentifier(p)
          /\ IsObjectOfMember(q) /\ ~IsWritten(Parent(q)) /\ RewrittenIdentifier(q)

(***************************************************************************)
(* C10: in a unit whose one export statement is module.exports = X, for X  *)
(* a number, an object, false, a string or a function, the output declares *)
(* __exports first, assigns X to it and has one default export, of         *)
(* __exports, placed right after the original code; it is the end of the   *)
(* output when no named exports are configured for the unit.               *)
(***************************************************************************)
\* the nodes that make a unit export something
ExportNodes ==
    ExportsIdentifiers
    \cup {p \in Paths : At(ast, p).type = "ExportDefaultDeclaration"}
    \cup {p \in Paths : At(ast, p).type = "Literal" /\ At(ast, p).vkind = "string"
                          /\ At(ast, p).value \in {"exports", "__esModule"}}
\* statement k of the unit is module.exports = X, the unit's one export statement
IsSoleExport(k) ==
    /\ At(ast, <<k>>).type = "ExpressionStatement"
    /\ <<k, 1>> \in ModuleExportsAssignments
    /\ LET x == At(ast, <<k, 1, 2>>)
       IN  \/ x.type \in {"ObjectExpression", "FunctionExpression"}
           \/ x.type = "Literal" /\ x.vkind \in {"number", "string"}
           \/ x.type = "Literal" /\ x.vkind = "boolean" /\ x.value = "false"
    /\ \A p \in ExportNodes : IsPrefix(<<k, 1, 1>>, p)
DefaultExports ==
    {i \in 1..Len(result.code) :
        result.code[i] \in {"export default __exports;", "export default __exports.default;"}}

OwnDefaultExports == {p \in Paths : At(ast, p).type = "ExportDefaultDeclaration"}
AppendedDefaultExports ==
    {i \in 1..Len(s.outro) :
        s.outro[i] \in {"export default __exports;", "export default __exports.default;"}}
\* the default exports in the returned text, the unit's own and the appended
OutputDefaultExports ==
    DefaultExports
    \cup {i \in 1..(Len(result.code) - 1) :
             result.code[i] = "export" /\ result.code[i + 1] = "default"}

C11_OneDefaultExport ==
    (Returned /\ Cardinality(OwnDefaultExports) <= 1) =>
        /\ hasExports =>
              /\ Cardinality(OutputDefaultExports) = 1
              /\ OwnDefaultExports # {} => AppendedDefaultExports = {}
              /\ OwnDefaultExports = {} =>
                    /\ Cardinality(AppendedDefaultExports) = 1
                    /\ \A i \in AppendedDefaultExports :
                          s.outro[i] = IF isESModule
                                       THEN "export default __exports.default;"
                                       ELSE "export default __exports;"
        /\ ~hasExports => AppendedDefaultExports = {}

\* a unit flagged isESModule that has its own default export was returned
\* with nothing appended as a default export
C11_Witness ==
    /\ Returned
    /\ hasExports /\ isESModule
    /\ Cardinality(OwnDefaultExports) = 1
    /\ AppendedDefaultExports = {}
    /\ Cardinality(OutputDefaultExports) = 1


(***************************************************************************)
(* The named exports of the appended text                                  *)
(***************************************************************************)
ExportVarText(n) == "export var " \o n \o " = __exports." \o n \o ";"
\* the places where the appended text declares and exports a new binding n
VarExports(n) == {i \in 1..Len(s.outro) : s.outro[i] = ExportVarText(n)}
\* the places where the appended text re-exports n inside export { ... }
ReExports(n) ==
    {i \in 1..Len(s.outro) :
        /\ s.outro[i] = n
        /\ \E j \in 1..(i - 1) :
              /\ s.outro[j] = "export {"
              /\ \A k \in (j + 1)..i : s.outro[k] # "};"}
NamedExportsOf(n) == VarExports(n) \cup ReExports(n)

(***************************************************************************)
(* C12: a unit that sets the interop marker by exports.__esModule = true   *)
(* and writes exports.default and exports.NAME is treated as an ES-module  *)
(* unit: it is flagged isESModule, its default export is                   *)
(* __exports.default and each NAME is a named export.                      *)
(***************************************************************************)
MarkerAssignments ==
    {p \in ExportsWrites :
        /\ ~At(ast, Append(p, 1)).computed
        /\ At(ast, Append(p, 1)).kids[2].name = "__esModule"
        /\ At(ast, Append(p, 2)).type = "Literal"
        /\ At(ast, Append(p, 2)).value = "true"}

C12_MarkerAssignmentFlagsESModule ==
    (Returned /\ MarkerAssignments # {} /\ "default" \in WrittenNames) =>
        /\ isESModule
        /\ OwnDefaultExports = {} =>
              \E i \in AppendedDefaultExports :
                  s.outro[i] = "export default __exports.default;"
        /\ \A n \in WrittenNames \ {"default", "__esModule"} : NamedExportsOf(n) # {}


(***************************************************************************)
(* C13: a property write module.exports.NAME = V is redirected to the      *)
(* synthetic export object: the module.exports span of its target is       *)
(* rendered as __exports, so that V is stored on __exports, and hasExports *)
(* is set.                                                                 *)
(***************************************************************************)
ModuleExportsPropertyWrites ==
    {p \in Assignments :
        /\ At(ast, Append(p, 1)).type = "MemberExpression"
        /\ IsModuleExports(At(ast, Append(p, 1)).kids[1])}

C13_ModuleExportsPropertyRedirected ==
    Returned =>
        \A p \in ModuleExportsPropertyWrites :
            /\ hasExports
            /\ Rendered(Append(Append(p, 1), 1)) = <<"__exports">>


(***************************************************************************)
(* C14: __interopImport(ns) returns ns itself when ns carries the          *)
(* __esModule marker; otherwise ns.default whenever ns has a default       *)
(* value, the falsy values false, 0 and '' included; otherwise ns itself,  *)
(* whose named bindings stay readable.                                     *)
(***************************************************************************)
InteropReturned == interop.pc = "returned"
CarriesMarker(ns) == ns.__esModule = "true"
HasDefault(ns) == ns.default # Undefined

C14_InteropImport ==
    InteropReturned =>
        LET ns == interop.ex
            ret == interop.ret
        IN  /\ CarriesMarker(ns) => ret.kind = "namespace" /\ ret.ns = ns
            /\ (~CarriesMarker(ns) /\ HasDefault(ns)) =>
                  ret.kind = "value" /\ ret.v = ns.default
            /\ (~CarriesMarker(ns) /\ ~HasDefault(ns)) =>
                  /\ ret.kind = "namespace"
                  /\ ret.ns.message = ns.message

\* the helper has returned the default false of a namespace without marker
C14_Witness ==
    /\ InteropReturned
    /\ ~CarriesMarker(interop.ex)
    /\ interop.ex.default = "false"
    /\ interop.ret = Value("false")


(***************************************************************************)
(* C15: the definition of __interopImport is in the output exactly once    *)
(* when the transform call produced at least one import alias, however     *)
(* many, and not at all when it produced none.                             *)
(***************************************************************************)
HelperDefinitions == {i \in 1..Len(result.code) : result.code[i] = InteropHelper}

C15_HelperOnceIfImports ==
    Returned =>
        /\ importIndex > 0 => Cardinality(HelperDefinitions) = 1
        /\ importIndex = 0 => HelperDefinitions = {}

\* two requires were rewritten and the helper is there once
C15_Witness ==
    /\ Returned
    /\ importIndex = 2
    /\ Cardinality(ImportStatements) = 2
    /\ Cardinality(HelperDefinitions) = 1


(***************************************************************************)
(* C16: every requested named export whose name a top-level variable       *)
(* declarator, function declaration or class declaration of the unit       *)
(* already binds is re-exported by name, export { NAME }; no new binding   *)
(* of that name is appended and the declaration's name stays as written.   *)
(***************************************************************************)
SeqToSet(q) == {q[i] : i \in 1..Len(q)}
\* the names handed to exportNames in this transform call
RequestedNames ==
    IF ~hasExports THEN {}
    ELSE (IF isESModule THEN SeqToSet(exported) \ {"default"} ELSE {})
         \cup (IF namedExportFile(id) \in DOMAIN NamedExports
               THEN SeqToSet(NamedExports[namedExportFile(id)]) ELSE {})
\* the paths of the identifiers a top-level declaration binds
TopLevelBindings ==
    {<<k, 1, 1>> : k \in {j \in 1..Len(ast.kids) : ast.kids[j].type = "VariableDeclaration"}}
    \cup {<<k, 1>> : k \in {j \in 1..Len(ast.kids) :
                               ast.kids[j].type \in {"FunctionDeclaration", "ClassDeclaration"}}}
BindingsOf(n) == {p \in TopLevelBindings : At(ast, p).name = n}

C16_BoundNameReExported ==
    Returned =>
        \A n \in RequestedNames :
            BindingsOf(n) # {} =>
                /\ ReExports(n) # {}
                /\ VarExports(n) = {}
                /\ \A p \in BindingsOf(n) : Rendered(p) = <<n>>

\* a class of the unit was re-exported by name
C16_Witness ==
    /\ Returned
    /\ \E n \in RequestedNames :
          /\ \E p \in BindingsOf(n) : At(ast, Parent(p)).type = "ClassDeclaration"
          /\ ReExports(n) # {} /\ VarExports(n) = {}


(***************************************************************************)
(* C17: every requested named export whose name is not bound at the unit's *)
(* top level gets a new exported binding export var NAME = __exports.NAME  *)
(* in the text appended after all the original code, whether or not the    *)
(* unit ever assigns exports.NAME; every requested name is either          *)
(* re-exported or given a new binding, never both.                         *)
(***************************************************************************)
\* the text appended by transform is the end of the returned text
OutroIsEnd ==
    /\ Len(result.code) = Len(s.intro) + Len(Patched(s, 0)) + Len(s.outro)
    /\ SubSeq(result.code, Len(result.code) - Len(s.outro) + 1, Len(result.code)) = s.outro

C17_UnboundNameDeclared ==
    Returned =>
        /\ OutroIsEnd
        /\ \A n \in RequestedNames :
              /\ BindingsOf(n) = {} => VarExports(n) # {}
              /\ (ReExports(n) # {}) # (VarExports(n) # {})
              /\ \A i \in 1..Len(s.intro) : s.intro[i] # ExportVarText(n)

\* foo, written through exports.foo, and bar, never written, both got a new
\* exported binding at the end of the unit
C17_Witness ==
    /\ Returned
    /\ "foo" \in WrittenNames /\ "bar" \notin WrittenNames
    /\ {"foo", "bar"} \subseteq RequestedNames
    /\ BindingsOf("foo") = {} /\ BindingsOf("bar") = {}
    /\ VarExports("foo") # {} /\ VarExports("bar") # {}
    /\ result.code[Len(result.code)] = ExportVarText("f")


(***************************************************************************)
(* C18: when the traversal is over, a unit flagged isESModule gets its     *)
(* named exports from the candidate names recorded from its exports.NAME   *)
(* writes: exactly the distinct names other than default, each exported    *)
(* once, kept in order of first write; for a unit not flagged isESModule   *)
(* the candidate names give no named export.  Checked on units for which   *)
(* the caller requests no named export, so that every named export in the  *)
(* output comes from the candidates.                                       *)
(***************************************************************************)
FirstWrite(n, q) == CHOOSE i \in 1..Len(q) : q[i] = n /\ \A j \in 1..(i - 1) : q[j] # n
\* r lists the distinct names of q other than default, in order of first occurrence
IsFirstWriteOrder(r, q) ==
    /\ SeqToSet(r) = SeqToSet(q) \ {"default"}
    /\ \A i, j \in 1..Len(r) : i < j => FirstWrite(r[i], q) < FirstWrite(r[j], q)
NoRequest == namedExportFile(id) \notin DOMAIN NamedExports
\* the appended text holds nothing but the default export, the marker export
\* and named exports of the names of r
OnlyExports(outro, r) ==
    \A i \in 1..Len(outro) :
        outro[i] \in {";", ",", "export {", "};",
                      "export default __exports;", "export default __exports.default;",
                      "var __esModule = true; export { __esModule };"}
                     \cup SeqToSet(r) \cup {ExportVarText(n) : n \in SeqToSet(r)}

C18_CandidatesToNamedExports ==
    [][(pc = "emit" /\ hasExports /\ NoRequest) =>
          IF isESModule
          THEN /\ IsFirstWriteOrder(exported', exported)
               /\ OnlyExports(s'.outro, exported')
               /\ \A n \in SeqToSet(exported') : Cardinality(NamedExportsOf(n)') = 1
          ELSE /\ exported' = exported
               /\ OnlyExports(s'.outro, <<>>)]_vars

\* a unit flagged isESModule that wrote bar, default, foo and bar again was
\* returned with the named exports bar and foo, once each
C18_Witness ==
    /\ Returned /\ isESModule /\ NoRequest
    /\ {"bar", "default", "foo"} \subseteq WrittenNames
    /\ exported = <<"bar", "foo">>
    /\ Cardinality(VarExports("bar")) = 1 /\ Cardinality(VarExports("foo")) = 1
    /\ VarExports("default") = {}


(***************************************************************************)
(* C19: a name that is both a candidate recorded from the unit's writes    *)
(* and in the caller-supplied list is exported exactly once: the appended  *)
(* text never holds two export statements or two declarations for one      *)
(* name.                                                                   *)
(***************************************************************************)
C19_EachNameExportedOnce ==
    Returned =>
        \A n \in RequestedNames : Cardinality(NamedExportsOf(n)) = 1


(***************************************************************************)
(* C20: whenever hasExports is set the returned text begins with           *)
(* var __exports = {}; the declaration is there once, ahead of the interop *)
(* helper, of every import statement and of all the original code, however *)
(* many requires were rewritten.                                           *)
(***************************************************************************)
ExportsDeclarations ==
    {i \in 1..Len(result.code) : result.code[i] = "var __exports = {};"}

C20_ExportsDeclaredFirst ==
    (Returned /\ hasExports) =>
        /\ ExportsDeclarations = {1}
        /\ Head(s.intro) = "var __exports = {};"
        /\ \A i \in HelperDefinitions : i > 1
        /\ \A i \in ImportStatements : i > 1
        /\ Cardinality(ImportStatements) = importIndex
        /\ SubSeq(result.code, Len(s.intro) + 1, Len(s.intro) + Len(Patched(s, 0)))
              = Patched(s, 0)

\* a unit with exports and two rewritten requires begins with the
\* declaration, followed by the helper and the two imports
C20_Witness ==
    /\ Returned /\ hasExports
    /\ importIndex = 2
    /\ Len(s.intro) = 4
    /\ result.code[1] = "var __exports = {};"
    /\ result.code[2] = InteropHelper
    /\ ImportStatements = {3, 4}


(***************************************************************************)
(* C21 as claimed: in the output of a unit flagged isESModule every        *)
(* named-export statement, from the candidate names or from the            *)
(* caller-supplied list, comes after the default export and before the     *)
(* marker export var __esModule = true; export { __esModule };, which is   *)
(* the last appended content.                                              *)
(***************************************************************************)
MarkerExportText == "var __esModule = true; export { __esModule };"
MarkerExports == {i \in 1..Len(s.outro) : s.outro[i] = MarkerExportText}
\* place i comes after the appended default export
AfterDefault(i) == \A d \in AppendedDefaultExports : d < i
BeforeMarker(i) == \A m \in MarkerExports : i < m
AfterMarker(i) == \A m \in MarkerExports : m < i
RequestedList ==
    IF NoRequest THEN <<>> ELSE NamedExports[namedExportFile(id)]

C21_Original ==
    (Returned /\ hasExports /\ isESModule) =>
        /\ MarkerExports = {Len(s.outro)}
        /\ \A n \in RequestedNames : \A i \in NamedExportsOf(n) :
              AfterDefault(i) /\ BeforeMarker(i)

(***************************************************************************)
(* C21 as amended: in the output of a unit flagged isESModule the appended *)
(* content is, in this order: the default export (if the unit has none of  *)
(* its own), the named exports of the candidate names, the marker export,  *)
(* and after the marker export the named exports of the caller-supplied    *)
(* list; the marker export is the last appended content only when the      *)
(* caller supplies no list for the unit.                                   *)
(***************************************************************************)
C21_EmissionOrder ==
    (Returned /\ hasExports /\ isESModule) =>
        /\ Cardinality(MarkerExports) = 1
        /\ \A m \in MarkerExports : AfterDefault(m)
        /\ \A n \in SeqToSet(exported) :
              \E i \in NamedExportsOf(n) : AfterDefault(i) /\ BeforeMarker(i)
        /\ \A n \in SeqToSet(RequestedList) :
              \E i \in NamedExportsOf(n) : AfterMarker(i)
        /\ \A n \in RequestedNames : \A i \in NamedExportsOf(n) :
              \/ n \in SeqToSet(exported) /\ AfterDefault(i) /\ BeforeMarker(i)
              \/ n \in SeqToSet(RequestedList) /\ AfterMarker(i)
        /\ NoRequest => MarkerExports = {Len(s.outro)}

\* a flagged unit for which the caller lists names was returned with a
\* candidate's export before the marker export and the listed ones after it
C21_Witness ==
    /\ Returned /\ hasExports /\ isESModule
    /\ AppendedDefaultExports # {}
    /\ exported # <<>>
    /\ RequestedList # <<>>
    /\ \E i \in NamedExportsOf(exported[1]) : AfterDefault(i) /\ BeforeMarker(i)
    /\ \E i \in NamedExportsOf(RequestedList[1]) : AfterMarker(i)


(***************************************************************************)
(* C22: transform rewrites a unit exactly when the extension of its id is  *)
(* in the configured extension list, so a .jsx unit is transformed under   *)
(* the list .js, .jsx; a unit whose extension is not in the list is        *)
(* returned without a result, unparsed and unedited.                       *)
(***************************************************************************)
\* the call returned without parsing or editing anything
PassedThrough ==
    /\ ~result.defined
    /\ ast = NoNode
    /\ s = NewMagicString(<<>>)

C22_ExtensionListDecides ==
    pc = "done" =>
        /\ extname(id) \in Extensions => result.defined
        /\ extname(id) \notin Extensions => PassedThrough

(***************************************************************************)
(* The transform as one function: the traversal order of estree.walk, the  *)
(* ancestor stack it keeps, and the result of a call whose locals start    *)
(* as the call creates them                                                *)
(***************************************************************************)
RECURSIVE PreOrder(_, _)
RECURSIVE PreOrderFrom(_, _, _)
\* the paths of node, which is at p, in the order estree.walk enters them
PreOrder(node, p) == <<p>> \o PreOrderFrom(node, p, 1)
\* the same for the kids k, k + 1, ... of node
PreOrderFrom(node, p, k) ==
    IF k > Len(node.kids) THEN <<>>
    ELSE PreOrder(node.kids[k], Append(p, k)) \o PreOrderFrom(node, p, k + 1)

\* the proper ancestors of p from the root down to its parent
AncestorsOf(p) == [n \in 1..Len(p) |-> SubSeq(p, 1, n - 1)]

\* the locals of a call as it creates them
FreshAcc(tree, text) ==
    [importIndex |-> 0, isESModule |-> FALSE, hasExports |-> FALSE,
     hasImports |-> FALSE, hasESDefaultExport |-> FALSE, exported |-> <<>>,
     s |-> NewMagicString(text), ast |-> tree, threw |-> FALSE, host |-> FALSE]

RECURSIVE Walk(_, _, _)
\* the enter handler over the nodes of todo, in order, up to a throw
Walk(acc, todo, env) ==
    IF todo = <<>> \/ acc.threw THEN acc
    ELSE Walk(enter(acc, acc.ast, Head(todo), AncestorsOf(Head(todo)), env),
              Tail(todo), env)

\* the code transform(text, i) returns for the unit parsed as tree on a host
\* whose NODE_ENV is env
Output(tree, text, i, env) ==
    toString(emit(Walk(FreshAcc(tree, text), PreOrder(tree, <<>>), env), i).s)

\* the values NODE_ENV can have on the host, as far as the calls have read it
HostEnvs == IF nodeEnv = Unobserved THEN NodeEnvs ELSE {nodeEnv}
\* the traversal of the call is about to start
AtWalkStart == pc = "walk" /\ cur = <<>>

NestedRequires == {p \in LiteralRequires : Cardinality(BinaryIfsAbove(p)) >= 2}
InnermostIf(p) ==
    CHOOSE a \in BinaryIfsAbove(p) : \A b \in BinaryIfsAbove(p) : Len(b) <= Len(a)

AtBranchEvaluation ==
    /\ pc = "walk"
    /\ IsLiteralRequire(At(ast, cur))
    /\ BinaryIfsAbove(cur) # {}

C25_EvaluationTerminates ==
    /\ AtBranchEvaluation =>
          \A env \in HostEnvs :
              \E r \in {EvalIf(SetBranches(At(ast, EvaluatedIf(cur)),
                                            Marker("0"), Marker("1")), env)} :
                  ~r.threw /\ r.branch \in {"0", "1"}
    /\ pc # "failed"

(***************************************************************************)
(* C26: when a call has returned, the literal require calls the inclusion  *)
(* policy includes, taken in traversal order and counted from 0, carry the *)
(* aliases __require__import__0, __require__import__1, ...: the i-th is    *)
(* replaced under alias i, the aliases are pairwise distinct whatever the  *)
(* specifiers, no other call consumed an index, and the number of import   *)
(* statements, the number of replaced calls and the counter are equal.     *)
(***************************************************************************)
\* the included literal requires in the order the traversal enters them
IncludedInOrder ==
    SelectSeq(PreOrder(ast, <<>>), LAMBDA p : IsLiteralRequire(At(ast, p)) /\ Included(p))
\* the calls of require, literal or not
RequireCalls ==
    {p \in Paths : At(ast, p).type = "CallExpression" /\ At(ast, p).kids[1].name = "require"}

C26_AliasPerIncludedRequire ==
    Returned =>
        \E inc \in {IncludedInOrder} :
            /\ Len(inc) = importIndex
            /\ \A i \in 1..Len(inc) : RewrittenAs(inc[i], tempImportName(i - 1))
            /\ \A i, j \in 1..Len(inc) :
                  i # j => tempImportName(i - 1) # tempImportName(j - 1)
            /\ \A p \in RequireCalls \ SeqToSet(inc) : Untouched(p)
            /\ Cardinality(ImportStatements) = Len(inc)
            /\ Cardinality({p \in RequireCalls : EditsOn(p) # {}}) = Len(inc)

\* two requires of one specifier were replaced under aliases 0 and 1 in a
\* unit that also has a require that was not replaced
C26_Witness ==
    /\ Returned
    /\ importIndex = 2
    /\ \E p, q \in LiteralRequires :
          /\ At(ast, p).kids[2].value = At(ast, q).kids[2].value
          /\ RewrittenAs(p, tempImportName(0))
          /\ RewrittenAs(q, tempImportName(1))
    /\ \E p \in RequireCalls : Untouched(p)

(***************************************************************************)
(* C27: content inserted at the start is rendered last-called-first and    *)
(* content inserted at the end in call order.  While the tree is walked    *)
(* the start content is the import statements with the highest alias       *)
(* first; in the returned code the import of alias i + 1 comes right       *)
(* before the import of alias i, each for the require that got the alias,  *)
(* all of them behind the interop helper, which was inserted after them.   *)
(* At the end the default export comes before the named exports and the    *)
(* marker export appended after it, and the marker export before the       *)
(* exports of the caller's list appended after it.                         *)
(***************************************************************************)
Specifiers == {At(ast, p).kids[2].value : p \in LiteralRequires}

C27_InsertionOrder ==
    /\ pc \in {"walk", "emit"} =>
          /\ Len(s.intro) = importIndex
          /\ importIndex > 0 =>
                \E specs \in {Specifiers} : \A k \in 1..importIndex :
                    \E spec \in specs :
                        s.intro[k] = ImportOf(tempImportName(importIndex - k), spec)
          /\ s.outro = <<>>
    /\ Returned =>
          \E inc \in {IncludedInOrder} : \E h \in {Len(s.intro) - importIndex} :
              /\ \A k \in 1..h : s.intro[k] \in {"var __exports = {};", InteropHelper}
              /\ importIndex > 0 => \E k \in 1..h : s.intro[k] = InteropHelper
              /\ \A i \in 1..importIndex :
                    s.intro[h + i] = ImportOf(tempImportName(importIndex - i),
                                              At(ast, inc[importIndex - i + 1]).kids[2].value)
              /\ \A m \in MarkerExports : AfterDefault(m)
              /\ \A n \in SeqToSet(exported) : \A i \in NamedExportsOf(n) : AfterDefault(i)
              /\ hasExports =>
                    \A n \in SeqToSet(RequestedList) :
                        \E i \in NamedExportsOf(n) : AfterDefault(i) /\ AfterMarker(i)

\* two imports behind the helper, the later one first, and a default export
\* ahead of the exports of the caller's list
C27_Witness ==
    /\ Returned
    /\ importIndex = 2
    /\ \E a, b \in Specifiers :
          s.intro = <<"var __exports = {};", InteropHelper,
                      ImportOf(tempImportName(1), a), ImportOf(tempImportName(0), b)>>
    /\ AppendedDefaultExports # {}
    /\ \A n \in SeqToSet(<<"foo", "bar", "f">>) :
          \E i \in NamedExportsOf(n) : AfterDefault(i)

(***************************************************************************)
(* C28: the traversal runs the handlers on every node of the tree once, in *)
(* pre-order.  When the handlers of a node are about to run the ancestor   *)
(* stack holds the node's proper ancestors from the root to its parent and *)
(* the handlers have run on the nodes ahead of it and on no other; each    *)
(* visit runs them on the next node not yet entered and leaves the stack   *)
(* as pushed, less one pop for each node left; and when the traversal has  *)
(* ended every node has been entered and the stack is empty.               *)
(***************************************************************************)
\* place of p in po, the nodes in the order of the traversal
IndexIn(po, p) == CHOOSE k \in 1..Len(po) : po[k] = p
\* the number of nodes the handlers have run on so far
EnteredIn(po) == IF pc = "walk" THEN IndexIn(po, cur) - 1 ELSE Len(po)
\* the positions the handlers have recorded on the first n nodes of po
RecordedIn(po, n) ==
    UNION {{StartOf(ast, po[k]), EndOf(ast, po[k])} : k \in 1..n}

C28_WalkVisitsOnce ==
    /\ []((pc \in {"walk", "emit"} \/ Returned) =>
            \E po \in {PreOrder(ast, <<>>)} :
                /\ s.locs = RecordedIn(po, EnteredIn(po))
                /\ pc = "walk" => ancestors = AncestorsOf(cur)
                /\ pc # "walk" => ancestors = <<>> /\ EnteredIn(po) = Len(po))
    /\ [][(pc = "walk" /\ pc' \in {"walk", "emit"}) =>
              \E po \in {PreOrder(ast, <<>>)} :
                  /\ po[EnteredIn(po) + 1] = cur
                  /\ EnteredIn(po)' = EnteredIn(po) + 1
                  /\ Len(ancestors') = Len(ancestors) + 1 - (Len(cur) + 1 - Len(cur'))
                  /\ pc' = "emit" => ancestors' = <<>>]_vars

\* the traversal of a unit with a node four levels down has ended
C28_Witness ==
    /\ pc = "emit"
    /\ ancestors = <<>>
    /\ \E p \in Paths : Len(p) >= 4
    /\ s.locs = RecordedIn(PreOrder(ast, <<>>), Cardinality(Paths))

(***************************************************************************)
(* C29: branch evaluation leaves the tree as it found it.  Every step of   *)
(* the traversal that does not throw, and the emission after it, leaves    *)
(* the tree unchanged, so that after an evaluation the if statement has    *)
(* its own consequent and alternate again (none where it had none) and the *)
(* nodes visited afterwards are the original ones; and when the top-level  *)
(* declarations are looked up no if statement of the tree holds a marker   *)
(* assignment.                                                             *)
(***************************************************************************)
\* the if statements of the tree that hold a marker assignment as a branch
MarkedIfs ==
    {p \in Paths :
        /\ IsIf(p)
        /\ \E k \in 2..Len(At(ast, p).kids) : At(ast, p).kids[k].type = "Program"}

C29_TreeRestored ==
    /\ []((pc = "emit" \/ Returned) => MarkedIfs = {})
    /\ [][(pc \in {"walk", "emit"} /\ pc' # "failed") => ast' = ast]_vars

\* a require under an if statement without alternate was evaluated and
\* imported, and the if statement has no alternate afterwards
C29_Witness ==
    /\ Returned
    /\ MarkedIfs = {}
    /\ \E p \in LiteralRequires :
          /\ BinaryIfsAbove(p) # {}
          /\ At(ast, EvaluatedIf(p)).keys = <<"test", "consequent">>
          /\ Rewritten(p)

(***************************************************************************)
(* C30: in the returned code a reference to __exports implies its          *)
(* declaration.  Whenever an edit writes __exports over a module.exports   *)
(* target, the object of an exports.NAME write or a bare exports, or the   *)
(* appended text reads __exports, the code begins with var __exports = {}; *)
(* and when there is no such reference and no require was rewritten the    *)
(* code is the source text.                                                *)
(***************************************************************************)
\* the edits that write the identifier __exports
ExportsEdits == {e \in s.edits : \E i \in 1..Len(e.content) : e.content[i] = "__exports"}
\* the places of the appended text that read __exports
ExportsReads ==
    {i \in 1..Len(s.outro) :
        s.outro[i] \notin {";", ",", "export {", "};", MarkerExportText}
                          \cup SeqToSet(exported) \cup SeqToSet(RequestedList)}
ReferencesExports == ExportsEdits # {} \/ ExportsReads # {}

C30_ReferenceImpliesDeclaration ==
    Returned =>
        /\ ReferencesExports =>
              /\ result.code # <<>>
              /\ Head(result.code) = "var __exports = {};"
              /\ \A e \in ExportsEdits : e.content = <<"__exports">>
        /\ (~ReferencesExports /\ importIndex = 0) => result.code = code

\* a unit that passes exports to a call got the declaration, and its
\* appended default export reads the declared object
C30_Witness ==
    /\ Returned
    /\ \E p \in Paths :
          /\ At(ast, p).type = "Identifier" /\ At(ast, p).name = "exports"
          /\ At(ast, Parent(p)).type = "CallExpression"
          /\ ExportsEdit(p) \in ExportsEdits
    /\ ExportsReads # {}
    /\ Head(result.code) = "var __exports = {};"

====
